---- MODULE Spec2Model ----
(***************************************************************************)
(* The per-epoch training and validation loops of demucs/train.py:         *)
(* train_model (lines 21-101) and validate_model (lines 104-148).          *)
(*                                                                         *)
(* One behaviour is one call of one of the two procedures.  The arguments  *)
(* are drawn in Init; pc is the position of the single thread of control.  *)
(* Losses are exact numbers: a quotient a / b is kept as the pair <<a, b>> *)
(* and compared with RatEq.  Tensors and Python scalars are tagged pairs   *)
(* <<kind, value>> so that .item() is a real conversion.                   *)
(***************************************************************************)
EXTENDS Integers, Sequences, FiniteSets, TLC

\* ---------------------------------------------------------------- bounds
MaxItems == 5     \* len(dataset) ranges over 0..MaxItems
MaxBatch == 4     \* batch_size ranges over 1..MaxBatch
MaxWorld == 2     \* world_size ranges over 1..MaxWorld
MaxRepeat == 2    \* repeat ranges over 1..MaxRepeat

\* ------------------------------------------------------- argument values
\* Python's None and an optional value: the empty and the one-element tuple
None == <<>>
Some(v) == <<v>>
\* a name not bound yet (a tuple-valued one, a number-valued one)
Unbound == <<>>
UnboundInt == "Unbound"
NoError == "none"
Procs == {"train", "validate"}
Epochs == {0, 3}
Seeds == {None, Some(0), Some(2)}
Diffqs == {0, 2}
\* values criterion(estimates, sources) can take
Losses == {1, 2}
\* values quantizer.model_size() can take
ModelSizes == {3, 5}
\* sums of the other workers' metrics, per other worker
PeerLosses == {1, 2}
\* gradients of the two parameters left by the caller
InitGrads == {<<None, None>>, <<Some(6), Some(8)>>}
\* gradients one backward pass adds (None: the parameter is not in the graph)
GradSteps == {<<Some(3), Some(4)>>, <<Some(9), None>>}

VARIABLES
    proc, epoch, n_items, quantizer, diffq, repeat, seed, world_size,
    batch_size_arg,
    batch_size, loader_bs, sampler_epoch, sizes, repetition, idx,
    sources_len, total_loss, current_loss, model_size, loss, train_loss,
    grad_norm,
    grad, params, opt_steps, zero_grads, calls,
    processed, acc_sum, error, ret, pc

args == <<proc, epoch, n_items, quantizer, diffq, repeat, seed, world_size,
          batch_size_arg>>
vars == <<proc, epoch, n_items, quantizer, diffq, repeat, seed, world_size,
          batch_size_arg,
          batch_size, loader_bs, sampler_epoch, sizes, repetition, idx,
          sources_len, total_loss, current_loss, model_size, loss, train_loss,
          grad_norm,
          grad, params, opt_steps, zero_grads, calls,
          processed, acc_sum, error, ret, pc>>

\* ---------------------------------------------------------------- values
Tensor(v) == <<"tensor", v>>
PyInt(v) == <<"int", v>>
\* tensor.item(): the Python scalar held by a 0-dim tensor
Item(t) == <<"float", t[2]>>
\* a / b, exact
Div(a, b) == <<a, b>>
RatEq(x, y) == x[1] * y[2] = y[1] * x[2]
Abs(x) == IF x < 0 THEN -x ELSE x
\* x ** 0.5 of a perfect square
Sqrt(x) == CHOOSE r \in 0..x : r * r = x

RECURSIVE SeqSum(_)
SeqSum(s) == IF s = <<>> THEN 0 ELSE Head(s) + SeqSum(Tail(s))

\* ------------------------------------------------------------ the loader
CeilDiv(a, b) == (a + b - 1) \div b

\* number of indices DistributedSampler gives one of num_replicas workers
SamplerNumSamples(n, num_replicas) == CeilDiv(n, num_replicas)

\* sizes of the batches DataLoader(batch_size=b) yields over n samples
\* (drop_last is left at its default: the last batch may be short)
DataLoaderSizes(n, b) ==
    [i \in 1..CeilDiv(n, b) |-> IF i * b <= n THEN b ELSE n - (i - 1) * b]

\* ------------------------------------------------------------ train_model
\* mutant: the seed offset is forgotten
SamplerEpochBaseNoSeed(ep, rp, sd) == ep * rp

\* line 38-40: the epoch given to sampler.set_epoch
SamplerEpochBase(ep, rp, sd) ==
    IF sd # None THEN ep * rp + sd[1] * 1000 ELSE ep * rp

\* mutant: batch_size is not divided among the workers
LocalBatchSizeUndivided(bs, ws) == bs

\* line 42: batch_size //= world_size (only when world_size > 1)
LocalBatchSize(bs, ws) == IF ws > 1 THEN bs \div ws ELSE bs

\* mutant: no batch is skipped
SkipBatchNever(len, bs) == FALSE

\* line 57: if len(sources) < batch_size: continue
SkipBatch(len, bs) == len < bs

\* line 71-73: model_size = 0, or quantizer.model_size()
FetchModelSize(q, ms) == IF q THEN Tensor(ms) ELSE PyInt(0)

\* mutant: the model size penalty is left out of train_loss
TrainLossNoPenalty(l, d, ms) == Tensor(l[2])

\* line 75: train_loss = loss + diffq * model_size
TrainLoss(l, d, ms) == Tensor(l[2] + d * ms[2])

\* p.grad after backward adds g to it
AccumulateGrad(old, g) ==
    IF g = None THEN old ELSE IF old = None THEN g ELSE Some(old[1] + g[1])

\* line 77-81: the norm of the gradients, None contributing nothing
GradNormOf(gr) ==
    Sqrt(SeqSum([i \in 1..Len(gr) |->
                    IF gr[i] # None THEN Abs(gr[i][1]) * Abs(gr[i][1]) ELSE 0]))

\* optimizer.zero_grad(): None stays None; a gradient is zeroed or, with
\* set_to_none, dropped
ZeroedGrad(gr, to_none) ==
    [i \in 1..Len(gr) |->
        IF gr[i] = None \/ to_none THEN None ELSE Some(0)]

\* line 85-86: model_size = model_size.item() when a quantizer is given
ReportedModelSize(q, ms) == IF q THEN Item(ms) ELSE ms

\* line 88: total_loss += loss.item()
AddLoss(total, l) == total + Item(l)[2]

\* mutant: the denominator is one too large
CumulativeMeanOffByOne(total, i) == Div(total, 2 + i)

\* line 89 / 142: current_loss = total_loss / (1 + idx)
CumulativeMean(total, i) == Div(total, 1 + i)

\* utils.average_metric: the mean of the workers' metrics
average_metric(metric, peers, ws) == Div(metric[1] + peers * metric[2], metric[2] * ws)

Init ==
    /\ proc \in Procs
    /\ n_items \in 0..MaxItems
    /\ batch_size_arg \in 1..MaxBatch
    /\ world_size \in 1..MaxWorld
    /\ epoch \in Epochs
    /\ repeat \in 1..MaxRepeat
    /\ seed \in Seeds
    /\ quantizer \in BOOLEAN
    /\ diffq \in Diffqs
    /\ grad \in InitGrads
    \* validate_model has no repeat, seed, quantizer or diffq argument
    /\ proc = "validate" =>
          /\ repeat = 1 /\ seed = None /\ quantizer = FALSE /\ diffq = 0
          /\ epoch = 0 /\ grad = <<None, None>>
    /\ batch_size = batch_size_arg
    /\ loader_bs = UnboundInt
    /\ sampler_epoch = None
    /\ sizes = <<>>
    /\ repetition = 0
    /\ idx = -1
    /\ sources_len = UnboundInt
    /\ total_loss = UnboundInt
    /\ current_loss = Unbound
    /\ model_size = Unbound
    /\ loss = Unbound
    /\ train_loss = Unbound
    /\ grad_norm = UnboundInt
    /\ params = 0
    /\ opt_steps = 0
    /\ zero_grads = 0
    /\ calls = <<>>
    /\ processed = <<>>
    /\ acc_sum = 0
    /\ error = NoError
    /\ ret = Unbound
    /\ pc = "start"

\* lines 36-47: the sampler, the loader, current_loss = 0, model_size = 0.
\* DataLoader rejects a batch size of 0 with a ValueError.
Setup ==
    /\ pc = "start"
    /\ proc = "train"
    /\ batch_size' = LocalBatchSize(batch_size, world_size)
    /\ loader_bs' = batch_size'
    /\ sampler_epoch' = IF world_size > 1
                          THEN Some(SamplerEpochBase(epoch, repeat, seed))
                          ELSE None
    /\ IF batch_size' < 1
         THEN /\ error' = "ValueError"
              /\ pc' = "raised"
              /\ UNCHANGED <<sizes, current_loss, model_size>>
         ELSE /\ sizes' = DataLoaderSizes(
                             IF world_size > 1
                               THEN SamplerNumSamples(n_items, world_size)
                               ELSE n_items,
                             batch_size')
              /\ current_loss' = Div(0, 1)
              /\ model_size' = PyInt(0)
              /\ pc' = "rep_head"
              /\ UNCHANGED error
    /\ UNCHANGED <<args, repetition, idx, sources_len, total_loss, loss,
                   train_loss, grad_norm, grad, params, opt_steps, zero_grads,
                   calls, processed, acc_sum, ret>>

\* mutant: total_loss = 0 sits before the loop over the repetitions
RepStartKeepTotal ==
    /\ pc = "rep_head"
    /\ repetition < repeat
    /\ total_loss' = IF repetition = 0 THEN 0 ELSE total_loss
    /\ idx' = -1
    /\ processed' = <<>>
    /\ acc_sum' = 0
    /\ pc' = "loop"
    /\ UNCHANGED <<args, batch_size, loader_bs, sampler_epoch, sizes,
                   repetition, sources_len, current_loss, model_size, loss,
                   train_loss, grad_norm, grad, params, opt_steps, zero_grads,
                   calls, error, ret>>

\* lines 48-55: the next repetition starts: total_loss = 0, a fresh enumerate
RepStart ==
    /\ pc = "rep_head"
    /\ repetition < repeat
    /\ total_loss' = 0
    /\ idx' = -1
    /\ processed' = <<>>
    /\ acc_sum' = 0
    /\ pc' = "loop"
    /\ UNCHANGED <<args, batch_size, loader_bs, sampler_epoch, sizes,
                   repetition, sources_len, current_loss, model_size, loss,
                   train_loss, grad_norm, grad, params, opt_steps, zero_grads,
                   calls, error, ret>>

\* lines 56-59: the loader yields the next batch; a short one is skipped
NextBatch ==
    /\ pc = "loop"
    /\ idx + 1 < Len(sizes)
    /\ idx' = idx + 1
    /\ sources_len' = sizes[idx' + 1]
    /\ pc' = IF SkipBatch(sources_len', batch_size) THEN "loop" ELSE "forward"
    /\ UNCHANGED <<args, batch_size, loader_bs, sampler_epoch, sizes,
                   repetition, total_loss, current_loss, model_size, loss,
                   train_loss, grad_norm, grad, params, opt_steps, zero_grads,
                   calls, processed, acc_sum, error, ret>>

\* lines 60-75: forward pass, criterion, model size, train_loss.
\* calls is the log of the calls made for the batch being processed.
Forward ==
    /\ pc = "forward"
    /\ \E l \in Losses, ms \in ModelSizes :
          /\ loss' = Tensor(l)
          /\ model_size' = FetchModelSize(quantizer, ms)
          /\ train_loss' = TrainLoss(loss', diffq, model_size')
          /\ acc_sum' = acc_sum + l
          /\ calls' = IF quantizer
                         THEN << <<"criterion", l>>, <<"model_size", ms>> >>
                         ELSE << <<"criterion", l>> >>
    /\ processed' = Append(processed, idx)
    /\ pc' = "backward"
    /\ UNCHANGED <<args, batch_size, loader_bs, sampler_epoch, sizes,
                   repetition, idx, sources_len, total_loss, current_loss,
                   grad_norm, grad, params, opt_steps, zero_grads, error, ret>>

\* line 76: train_loss.backward()
Backward ==
    /\ pc = "backward"
    /\ \E g \in GradSteps :
          grad' = [i \in 1..Len(grad) |-> AccumulateGrad(grad[i], g[i])]
    /\ calls' = Append(calls, <<"backward", train_loss[2]>>)
    /\ pc' = "grad_norm"
    /\ UNCHANGED <<args, batch_size, loader_bs, sampler_epoch, sizes,
                   repetition, idx, sources_len, total_loss, current_loss,
                   model_size, loss, train_loss, grad_norm, params, opt_steps,
                   zero_grads, processed, acc_sum, error, ret>>

\* lines 77-81: grad_norm
GradNorm ==
    /\ pc = "grad_norm"
    /\ grad_norm' = GradNormOf(grad)
    /\ calls' = Append(calls, <<"grad_norm", grad_norm'>>)
    /\ pc' = "step"
    /\ UNCHANGED <<args, batch_size, loader_bs, sampler_epoch, sizes,
                   repetition, idx, sources_len, total_loss, current_loss,
                   model_size, loss, train_loss, grad, params, opt_steps,
                   zero_grads, processed, acc_sum, error, ret>>

\* mutant: optimizer.step() is missing
OptStepSkipped ==
    /\ pc = "step"
    /\ pc' = "zero_grad"
    /\ UNCHANGED <<args, batch_size, loader_bs, sampler_epoch, sizes,
                   repetition, idx, sources_len, total_loss, current_loss,
                   model_size, loss, train_loss, grad_norm, grad, params,
                   opt_steps, zero_grads, calls, processed, acc_sum, error,
                   ret>>

\* line 82: optimizer.step() updates the parameters in place
OptStep ==
    /\ pc = "step"
    /\ opt_steps' = opt_steps + 1
    /\ params' = params + 1
    /\ calls' = Append(calls, <<"step", opt_steps'>>)
    /\ pc' = "zero_grad"
    /\ UNCHANGED <<args, batch_size, loader_bs, sampler_epoch, sizes,
                   repetition, idx, sources_len, total_loss, current_loss,
                   model_size, loss, train_loss, grad_norm, grad, zero_grads,
                   processed, acc_sum, error, ret>>

\* line 83: optimizer.zero_grad()
ZeroGrad ==
    /\ pc = "zero_grad"
    /\ \E to_none \in BOOLEAN : grad' = ZeroedGrad(grad, to_none)
    /\ zero_grads' = zero_grads + 1
    /\ calls' = Append(calls, <<"zero_grad", zero_grads'>>)
    /\ pc' = "accum"
    /\ UNCHANGED <<args, batch_size, loader_bs, sampler_epoch, sizes,
                   repetition, idx, sources_len, total_loss, current_loss,
                   model_size, loss, train_loss, grad_norm, params, opt_steps,
                   processed, acc_sum, error, ret>>

\* lines 85-94: model_size.item(), total_loss, current_loss, del
Accumulate ==
    /\ pc = "accum"
    /\ model_size' = ReportedModelSize(quantizer, model_size)
    /\ total_loss' = AddLoss(total_loss, loss)
    /\ current_loss' = CumulativeMean(total_loss', idx)
    /\ sources_len' = UnboundInt
    /\ loss' = Unbound
    /\ train_loss' = Unbound
    /\ pc' = "loop"
    /\ UNCHANGED <<args, batch_size, loader_bs, sampler_epoch, sizes,
                   repetition, idx, grad_norm, grad, params, opt_steps,
                   zero_grads, calls, processed, acc_sum, error, ret>>

\* lines 96-97: the loader is exhausted; sampler.epoch += 1 when distributed
RepEnd ==
    /\ pc = "loop"
    /\ idx + 1 = Len(sizes)
    /\ sampler_epoch' = IF world_size > 1 THEN Some(sampler_epoch[1] + 1)
                                          ELSE sampler_epoch
    /\ repetition' = repetition + 1
    /\ pc' = "rep_head"
    /\ UNCHANGED <<args, batch_size, loader_bs, sizes, idx, sources_len,
                   total_loss, current_loss, model_size, loss, train_loss,
                   grad_norm, grad, params, opt_steps, zero_grads, calls,
                   processed, acc_sum, error, ret>>

\* the other workers' metrics that all_reduce adds: a worker that accepted
\* no batch reports 0, and every worker is given shards of the same size
PeerMetrics ==
    IF \E i \in 1..Len(sizes) : ~SkipBatch(sizes[i], batch_size)
      THEN {(world_size - 1) * p : p \in PeerLosses}
      ELSE {0}

\* lines 99-100: current_loss = average_metric(current_loss) when distributed
Average ==
    /\ pc = "rep_head"
    /\ repetition = repeat
    /\ \E peers \in PeerMetrics :
          current_loss' = IF world_size > 1
                            THEN average_metric(current_loss, peers, world_size)
                            ELSE current_loss
    /\ pc' = "return"
    /\ UNCHANGED <<args, batch_size, loader_bs, sampler_epoch, sizes,
                   repetition, idx, sources_len, total_loss, model_size, loss,
                   train_loss, grad_norm, grad, params, opt_steps, zero_grads,
                   calls, processed, acc_sum, error, ret>>

\* line 101: return current_loss, model_size
Return ==
    /\ pc = "return"
    /\ ret' = <<current_loss, model_size>>
    /\ pc' = "done"
    /\ UNCHANGED <<args, batch_size, loader_bs, sampler_epoch, sizes,
                   repetition, idx, sources_len, total_loss, current_loss,
                   model_size, loss, train_loss, grad_norm, grad, params,
                   opt_steps, zero_grads, calls, processed, acc_sum, error>>

\* --------------------------------------------------------- validate_model
\* mutant: current_loss = 0 before the loop, as train_model has it
VSetupInitLoss ==
    /\ pc = "start"
    /\ proc = "validate"
    /\ loader_bs' = batch_size
    /\ sizes' = DataLoaderSizes(n_items, batch_size)
    /\ total_loss' = 0
    /\ current_loss' = Div(0, 1)
    /\ pc' = "v_loop"
    /\ UNCHANGED <<args, batch_size, sampler_epoch, repetition, idx,
                   sources_len, model_size, loss, train_loss, grad_norm, grad,
                   params, opt_steps, zero_grads, calls, processed, acc_sum,
                   error, ret>>

\* lines 117-125: the loader over the whole dataset, total_loss = 0
VSetup ==
    /\ pc = "start"
    /\ proc = "validate"
    /\ loader_bs' = batch_size
    /\ sizes' = DataLoaderSizes(n_items, batch_size)
    /\ total_loss' = 0
    /\ pc' = "v_loop"
    /\ UNCHANGED <<args, batch_size, sampler_epoch, repetition, idx,
                   sources_len, current_loss, model_size, loss, train_loss,
                   grad_norm, grad, params, opt_steps, zero_grads, calls,
                   processed, acc_sum, error, ret>>

\* mutant: the validator skips a short batch as the trainer does
VNextBatchSkipShort ==
    /\ pc = "v_loop"
    /\ idx + 1 < Len(sizes)
    /\ idx' = idx + 1
    /\ sources_len' = sizes[idx' + 1]
    /\ pc' = IF SkipBatch(sources_len', batch_size) THEN "v_loop" ELSE "v_forward"
    /\ UNCHANGED <<args, batch_size, loader_bs, sampler_epoch, sizes,
                   repetition, total_loss, current_loss, model_size, loss,
                   train_loss, grad_norm, grad, params, opt_steps, zero_grads,
                   calls, processed, acc_sum, error, ret>>

\* line 126: the loader yields the next batch
VNextBatch ==
    /\ pc = "v_loop"
    /\ idx + 1 < Len(sizes)
    /\ idx' = idx + 1
    /\ sources_len' = sizes[idx' + 1]
    /\ pc' = "v_forward"
    /\ UNCHANGED <<args, batch_size, loader_bs, sampler_epoch, sizes,
                   repetition, total_loss, current_loss, model_size, loss,
                   train_loss, grad_norm, grad, params, opt_steps, zero_grads,
                   calls, processed, acc_sum, error, ret>>

\* lines 127-138: forward pass under no_grad, criterion
VForward ==
    /\ pc = "v_forward"
    /\ \E l \in Losses :
          /\ loss' = Tensor(l)
          /\ acc_sum' = acc_sum + l
    /\ processed' = Append(processed, idx)
    /\ pc' = "v_accum"
    /\ UNCHANGED <<args, batch_size, loader_bs, sampler_epoch, sizes,
                   repetition, idx, sources_len, total_loss, current_loss,
                   model_size, train_loss, grad_norm, grad, params, opt_steps,
                   zero_grads, calls, error, ret>>

\* mutant: the validator steps the optimizer after each batch
VAccumulateWithStep ==
    /\ pc = "v_accum"
    /\ total_loss' = AddLoss(total_loss, loss)
    /\ current_loss' = CumulativeMean(total_loss', idx)
    /\ opt_steps' = opt_steps + 1
    /\ params' = params + 1
    /\ sources_len' = UnboundInt
    /\ loss' = Unbound
    /\ pc' = "v_loop"
    /\ UNCHANGED <<args, batch_size, loader_bs, sampler_epoch, sizes,
                   repetition, idx, model_size, train_loss, grad_norm, grad,
                   zero_grads, calls, processed, acc_sum, error, ret>>

\* lines 141-146: total_loss, current_loss, del
VAccumulate ==
    /\ pc = "v_accum"
    /\ total_loss' = AddLoss(total_loss, loss)
    /\ current_loss' = CumulativeMean(total_loss', idx)
    /\ sources_len' = UnboundInt
    /\ loss' = Unbound
    /\ pc' = "v_loop"
    /\ UNCHANGED <<args, batch_size, loader_bs, sampler_epoch, sizes,
                   repetition, idx, model_size, train_loss, grad_norm, grad,
                   params, opt_steps, zero_grads, calls, processed, acc_sum,
                   error, ret>>

\* line 148: return current_loss, a name never bound when no batch came
VReturn ==
    /\ pc = "v_loop"
    /\ idx + 1 = Len(sizes)
    /\ IF current_loss = Unbound
         THEN /\ error' = "UnboundLocalError"
              /\ pc' = "raised"
              /\ UNCHANGED ret
         ELSE /\ ret' = current_loss
              /\ pc' = "done"
              /\ UNCHANGED error
    /\ UNCHANGED <<args, batch_size, loader_bs, sampler_epoch, sizes,
                   repetition, idx, sources_len, total_loss, current_loss,
                   model_size, loss, train_loss, grad_norm, grad, params,
                   opt_steps, zero_grads, calls, processed, acc_sum>>

Next ==
    \/ Setup
    \/ RepStart
    \/ NextBatch
    \/ Forward
    \/ Backward
    \/ GradNorm
    \/ OptStep
    \/ ZeroGrad
    \/ Accumulate
    \/ RepEnd
    \/ Average
    \/ Return
    \/ VSetup
    \/ VNextBatch
    \/ VForward
    \/ VAccumulate
    \/ VReturn

Spec == Init /\ [][Next]_vars

\* ------------------------------------------------------------ properties
\* the loader positions 0..upto whose batch has at least bs samples
FullIdx(upto, bs) ==
    SelectSeq([i \in 1..(upto + 1) |-> i - 1], LAMBDA j : sizes[j + 1] >= bs)

\* the number of batches of one pass that have the loader's batch size
FullCount == Len(FullIdx(Len(sizes) - 1, loader_bs))

\* the argument logged for the call `name` of the batch being processed
CallArg(name) ==
    LET i == CHOOSE i \in 1..Len(calls) : calls[i][1] = name IN calls[i][2]

CallNames == [i \in 1..Len(calls) |-> calls[i][1]]

BatchCalls ==
    IF quantizer
      THEN <<"criterion", "model_size", "backward", "grad_norm", "step",
             "zero_grad">>
      ELSE <<"criterion", "backward", "grad_norm", "step", "zero_grad">>

InTrain == proc = "train" /\ pc \notin {"start", "raised"}

\* C1 as stated: train_model never processes a batch smaller than the
\* configured batch size (the batch_size argument).
C1_ConfiguredSizeExcluded ==
    InTrain =>
        \A i \in 1..Len(processed) : sizes[processed[i] + 1] >= batch_size_arg

\* C1 (amended): in train_model a batch smaller than the batch size given to
\* the loader (batch_size, or batch_size // world_size when distributed) is
\* excluded from the forward pass, the optimizer steps, total_loss and the
\* denominator of the cumulative loss; every other batch is processed.
C1_ShortBatchExcluded ==
    /\ InTrain =>
          \A i \in 1..Len(processed) : sizes[processed[i] + 1] >= loader_bs
    /\ (proc = "train" /\ pc = "loop") =>
          /\ processed = FullIdx(idx, loader_bs)
          /\ total_loss = acc_sum
          /\ opt_steps = repetition * FullCount + Len(processed)
          /\ processed # <<>> => current_loss[2] = Len(processed)

\* a short batch was yielded and skipped after two full ones, one worker
C1_Witness ==
    /\ proc = "train" /\ pc = "loop" /\ world_size = 1
    /\ idx = 2 /\ sizes[3] < loader_bs
    /\ processed = <<0, 1>> /\ current_loss[2] = 2

\* C2: after k >= 1 batches were processed in the current repetition
\* (trainer) or call (validator), current_loss is the sum of their criterion
\* losses divided by k; total_loss is 0 before the first of them.
C2_CumulativeMean ==
    pc \in {"loop", "v_loop"} =>
        /\ processed # <<>> =>
              RatEq(current_loss, Div(acc_sum, Len(processed)))
        /\ processed = <<>> => total_loss = 0

\* two batches with different losses, in the second repetition
C2_Witness ==
    /\ proc = "train" /\ pc = "loop" /\ repetition = 1
    /\ Len(processed) = 2 /\ acc_sum = 3 /\ current_loss = <<3, 2>>

\* C3: train_model returns (current_loss, model_size); before the averaging
\* across workers current_loss is the cumulative mean of the last repetition
\* alone, and model_size is the one of the last processed batch.
C3_ReturnsLastRepetition ==
    /\ (proc = "train" /\ pc = "rep_head" /\ repetition = repeat
            /\ processed # <<>>) =>
          RatEq(current_loss, Div(acc_sum, Len(processed)))
    /\ (proc = "train" /\ pc = "done") =>
          /\ ret = <<current_loss, model_size>>
          /\ (world_size = 1 /\ processed # <<>>) =>
                RatEq(ret[1], Div(acc_sum, Len(processed)))
          /\ (quantizer /\ processed # <<>>) =>
                ret[2] = <<"float", CallArg("model_size")>>

\* two repetitions of two batches returned; the last had losses 1 and 1
C3_Witness ==
    /\ proc = "train" /\ pc = "done" /\ repeat = 2 /\ world_size = 1
    /\ Len(processed) = 2 /\ acc_sum = 2 /\ opt_steps = 4
    /\ RatEq(ret[1], Div(1, 1))

\* C4: the loss given to backward is criterion_loss + diffq * model_size with
\* a quantizer and criterion_loss without one; total_loss adds the criterion
\* loss alone; without a quantizer the returned model_size is the int 0.
C4_BackpropLoss ==
    /\ (proc = "train" /\ pc \in {"grad_norm", "step", "zero_grad", "accum"}) =>
          /\ CallArg("criterion") = loss[2]
          /\ quantizer =>
                CallArg("backward") = loss[2] + diffq * CallArg("model_size")
          /\ ~quantizer => CallArg("backward") = loss[2]
    /\ (proc = "train" /\ pc = "loop") => total_loss = acc_sum
    /\ (proc = "train" /\ pc = "done" /\ ~quantizer) => ret[2] = <<"int", 0>>

\* a penalised batch: loss 1, diffq 2, model size 5, backward of 11
C4_Witness ==
    /\ proc = "train" /\ pc = "accum" /\ quantizer /\ diffq = 2
    /\ loss = <<"tensor", 1>> /\ CallArg("model_size") = 5
    /\ CallArg("backward") = 11

\* C5: with world_size > 1 the sampler epoch is epoch * repeat (+ seed * 1000
\* when a seed is given, 0 included) plus the number of finished repetitions,
\* hence that base plus repeat at the return; with world_size = 1 there is
\* no sampler epoch.
C5_SamplerEpoch ==
    (proc = "train" /\ pc # "start") =>
        /\ world_size > 1 =>
              /\ sampler_epoch =
                    <<epoch * repeat
                        + (IF seed = None THEN 0 ELSE seed[1] * 1000)
                        + repetition>>
              /\ pc = "done" => repetition = repeat
        /\ world_size = 1 => sampler_epoch = None

\* epoch 3, repeat 2, seed 2, two workers: 2006 + 2 at the return
C5_Witness ==
    /\ proc = "train" /\ pc = "done" /\ world_size = 2
    /\ epoch = 3 /\ repeat = 2 /\ seed = <<2>>
    /\ sampler_epoch = <<2008>>

\* C6: the loader of train_model is given floor(batch_size / world_size)
\* when world_size > 1 and batch_size itself when world_size = 1.
C6_LoaderBatchSize ==
    (proc = "train" /\ pc # "start") =>
        IF world_size > 1
          THEN /\ loader_bs * world_size <= batch_size_arg
               /\ batch_size_arg < (loader_bs + 1) * world_size
          ELSE loader_bs = batch_size_arg

\* batch_size 3 over two workers: the loader gets 1
C6_Witness ==
    /\ proc = "train" /\ pc = "loop" /\ world_size = 2
    /\ batch_size_arg = 3 /\ loader_bs = 1

\* C7: validate_model calls neither optimizer.step nor optimizer.zero_grad
\* and leaves the parameters and their gradients as they were.
C7_ValidateNoUpdate ==
    proc = "validate" =>
        /\ opt_steps = 0
        /\ zero_grads = 0
        /\ params = 0
        /\ grad = <<None, None>>
        /\ calls = <<>>

\* a validation over three batches has returned
C7_Witness ==
    /\ proc = "validate" /\ pc = "done" /\ Len(processed) = 3

\* C8: validate_model processes every batch the loader yields, in the
\* loader's order and whatever its size: the loss sum and the denominator of
\* the cumulative mean count all of them.
C8_ValidateAllBatches ==
    /\ (proc = "validate" /\ pc = "v_loop") =>
          /\ processed = [i \in 1..(idx + 1) |-> i - 1]
          /\ total_loss = acc_sum
          /\ idx >= 0 => current_loss = <<acc_sum, idx + 1>>
    /\ (proc = "validate" /\ pc = "done") =>
          /\ Len(processed) * batch_size_arg >= n_items
          /\ (Len(processed) - 1) * batch_size_arg < n_items
          /\ ret = <<acc_sum, Len(processed)>>

\* five samples in batches of two: the last batch, of one, is counted
C8_Witness ==
    /\ proc = "validate" /\ pc = "done"
    /\ n_items = 5 /\ batch_size_arg = 2
    /\ sizes[3] = 1 /\ processed = <<0, 1, 2>> /\ ret[2] = 3

\* C9: for a processed training batch the calls are backward, gradient norm,
\* one optimizer step, zero_grad, in that order; the norm is the one of the
\* gradients backward left; once a step was made the gradients are zero when
\* a batch starts; the steps of a call number the processed batches of all
\* repetitions.
C9_StepOrder ==
    InTrain =>
        /\ CallNames = SubSeq(BatchCalls, 1, Len(calls))
        /\ pc = "accum" => Len(calls) = Len(BatchCalls)
        /\ pc \in {"step", "zero_grad"} =>
              CallArg("grad_norm") * CallArg("grad_norm") =
                  SeqSum([i \in 1..Len(grad) |->
                            IF grad[i] = None THEN 0 ELSE grad[i][1] * grad[i][1]])
        /\ (pc \in {"loop", "forward", "backward"} /\ opt_steps >= 1) =>
              \A i \in 1..Len(grad) : grad[i] \in {None, <<0>>}
        /\ pc \in {"loop", "forward"} =>
              /\ opt_steps = repetition * FullCount
                    + Len(FullIdx(IF pc = "loop" THEN idx ELSE idx - 1, loader_bs))
              /\ zero_grads = opt_steps
              /\ params = opt_steps
        /\ pc = "done" => opt_steps = repeat * FullCount

\* two repetitions of two full batches and a skipped short one: four steps
C9_Witness ==
    /\ proc = "train" /\ pc = "done" /\ repeat = 2
    /\ Len(sizes) = 3 /\ FullCount = 2 /\ opt_steps = 4 /\ zero_grads = 4

\* C10: when no batch is accepted train_model makes no optimizer step and
\* returns loss 0 and model size 0, quantizer or not; validate_model over a
\* loader that yields nothing raises for the unbound current_loss and
\* returns nothing, and raises in no other case.
C10_NoBatch ==
    /\ (proc = "train" /\ pc = "done" /\ FullCount = 0) =>
          /\ opt_steps = 0
          /\ RatEq(ret[1], Div(0, 1))
          /\ ret[2] = <<"int", 0>>
    /\ (proc = "validate" /\ pc \in {"done", "raised"}) =>
          IF n_items = 0
            THEN pc = "raised" /\ error = "UnboundLocalError" /\ ret = Unbound
            ELSE pc = "done" /\ error = NoError

\* a quantized training over undersized batches only has returned
C10_Witness ==
    /\ proc = "train" /\ pc = "done" /\ quantizer /\ diffq = 2
    /\ n_items = 1 /\ loader_bs = 2 /\ repeat = 2
    /\ ret = << <<0, 1>>, <<"int", 0>> >>

====
